---------------------------- MODULE Spec2Model ----------------------------
(***************************************************************************)
(* Model of depth_image_proc's DisparityNode (disparity.cpp) and           *)
(* PointCloudXyziNode (point_cloud_xyzi.cpp).                              *)
(*                                                                         *)
(* Two parts, each with its own specification over the same variables:     *)
(*   SpecGate  the matched_callback of the two publishers (lazy            *)
(*             subscription under connect_mutex_), run by several threads; *)
(*   SpecCb    the synchronized-tuple callbacks depthCb (with convert<T>,  *)
(*             pixel by pixel) and imageCb.                                *)
(***************************************************************************)
EXTENDS Integers, Sequences, FiniteSets, TLC

VARIABLES
    node,            \* which node this behaviour is about: "disparity" | "xyzi"
    \* ---- demand gate (matched_callback) ----
    count,           \* live number of consumers matched to the publisher
    queue,           \* notifications raised, not yet taken by a thread (their current_count)
    nChanges,        \* number of consumer-count changes so far
    pc,              \* position of each handler thread in matched_callback
    cap,             \* s.current_count of the notification a thread handles
    connect_mutex_,  \* 0 = free, otherwise the thread that owns it
    sub,             \* per upstream stream: is its subscriber subscribed
    nSub,            \* subscribe actions performed
    nUnsub,          \* unsubscribe actions that unsubscribed something
    lastAct,         \* the last such action: "none" | "sub" | "unsub"
    doubleSub,       \* a subscribe ran on a subscribed stream or right after a subscribe
    sameSide,        \* per thread: its notification's count was on the side the streams are on
    scen,            \* progress through the count sequence Scenario, handled one at a time; -1 = left it
    \* ---- synchronized-tuple callbacks (depthCb, imageCb) ----
    workers,         \* executor threads the host runs callbacks on
    inputs,          \* the messages the upstream streams carry: "all" | "few"
    alive,           \* FALSE once an exception has left a callback into the host
    min_range_,      \* DisparityNode parameters, read once in the constructor
    max_range_,
    model_,          \* PointCloudXyziNode::model_, shared by all imageCb invocations
    cbpc,            \* position of each callback thread
    tup,             \* the tuple a thread's callback was invoked with
    exc,             \* per thread: "none" | "caught" | "escaped"
    out,             \* per thread: the message its current callback published, or NoMsg
    prevBad,         \* the callback run just before the current one had an unsupported depth encoding
    ienc,            \* imageCb local: intensity_msg->encoding after normalisation
    cloud,           \* imageCb local: cloud_msg under construction
    disp,            \* depthCb local: disp_msg under construction
    loop             \* convert<T> locals: u, v, depth_row, disp_data, row_step, constant, writes

gateVars == <<count, queue, nChanges, pc, cap, connect_mutex_, sub, nSub, nUnsub,
              lastAct, doubleSub, sameSide, scen>>

cbVars == <<workers, inputs, alive, min_range_, max_range_, model_, cbpc, tup, exc, out,
            prevBad, ienc, cloud, disp, loop>>

vars == <<node, gateVars, cbVars>>

----------------------------------------------------------------------------
(* Bounds *)
NumHandlers == 2      \* executor threads that may run matched_callback
MaxCount == 2         \* consumers that may be matched at once
MaxChanges == 4       \* consumer-count changes in one behaviour

Handlers == 1..NumHandlers
Nodes == {"disparity", "xyzi"}
AllStreams == {"depth", "intensity", "info"}

\* The consumer counts after the start count 0 in 0 -> 1 -> 1 -> 0 -> 2.
Scenario == <<1, 1, 0, 2>>

\* The upstream subscribers of a node: sub_depth_image_, sub_info_ (disparity);
\* sub_depth_, sub_intensity_, sub_info_ (xyzi).
Streams(n) == IF n = "disparity" THEN {"depth", "info"} ELSE AllStreams

----------------------------------------------------------------------------
(* matched_callback *)

\* No handler is running and no notification is waiting.
Quiescent == queue = <<>> /\ \A t \in Handlers : pc[t] = "idle"

\* The consumer count changes to c and the publisher raises one matched event
\* carrying the new count. The count may stay what it was when one consumer
\* leaves as another joins, which takes a consumer to begin with.
Change(c) ==
    /\ nChanges < MaxChanges
    /\ c # count \/ c > 0
    /\ count' = c
    /\ queue' = Append(queue, c)
    /\ nChanges' = nChanges + 1
    /\ scen' = IF scen >= 0 /\ scen < Len(Scenario) /\ Quiescent
                    /\ c = Scenario[scen + 1]
               THEN scen + 1 ELSE -1
    /\ UNCHANGED cbVars
    /\ UNCHANGED <<node, pc, cap, connect_mutex_, sub, nSub, nUnsub, lastAct,
                   doubleSub, sameSide>>

\* An executor thread takes the oldest notification; its MatchedInfo is fixed here.
Deliver(t) ==
    /\ pc[t] = "idle"
    /\ queue # <<>>
    /\ cap' = [cap EXCEPT ![t] = Head(queue)]
    /\ queue' = Tail(queue)
    /\ pc' = [pc EXCEPT ![t] = "lock"]
    /\ UNCHANGED cbVars
    /\ UNCHANGED <<node, count, nChanges, connect_mutex_, sub, nSub, nUnsub,
                   lastAct, doubleSub, sameSide, scen>>

\* std::lock_guard<std::mutex> lock(connect_mutex_) can be taken.
MutexFreeNoLock == TRUE
MutexFree == connect_mutex_ = 0

\* The count the handler tests: pub_disparity_->get_subscription_count() in the
\* disparity node, s.current_count in the point-cloud node.
CountReadCaptured(t) == cap[t]
CountRead(t) == IF node = "disparity" THEN count ELSE cap[t]

\* The subscribe branch is taken: !sub_depth_.getSubscriber().
NeedsSubscribeAlways == TRUE
NeedsSubscribe == ~sub["depth"]

\* lock_guard, then the if / else if of the callback.
Enter(t) ==
    /\ pc[t] = "lock"
    /\ MutexFree
    /\ connect_mutex_' = t
    /\ LET c == CountRead(t) IN
       /\ pc' = [pc EXCEPT ![t] =
                    IF c = 0 THEN "unsub_depth"
                    ELSE IF NeedsSubscribe THEN "sub_depth"
                    ELSE "unlock"]
       /\ sameSide' = [sameSide EXCEPT ![t] =
                    \/ c > 0 /\ \A s \in Streams(node) : sub[s]
                    \/ c = 0 /\ \A s \in Streams(node) : ~sub[s]]
    /\ UNCHANGED cbVars
    /\ UNCHANGED <<node, count, queue, nChanges, cap, sub, nSub, nUnsub, lastAct,
                   doubleSub, scen>>

\* The order of a branch that leaves the intensity stream out.
NextStreamSkipIntensity(s) == IF s = "depth" \/ s = "intensity" THEN "info" ELSE ""

\* The stream handled after s in either branch, "" after the last one.
NextStream(s) ==
    IF s = "depth" THEN (IF node = "xyzi" THEN "intensity" ELSE "info")
    ELSE IF s = "intensity" THEN "info"
    ELSE ""

AfterStream(prefix, s) ==
    IF NextStream(s) = "" THEN "unlock"
    ELSE IF prefix = "sub" THEN
        (IF NextStream(s) = "intensity" THEN "sub_intensity" ELSE "sub_info")
    ELSE (IF NextStream(s) = "intensity" THEN "unsub_intensity" ELSE "unsub_info")

PcOf(prefix, s) ==
    IF prefix = "sub"
    THEN (IF s = "depth" THEN "sub_depth"
          ELSE IF s = "intensity" THEN "sub_intensity" ELSE "sub_info")
    ELSE (IF s = "depth" THEN "unsub_depth"
          ELSE IF s = "intensity" THEN "unsub_intensity" ELSE "unsub_info")

\* sub_X.unsubscribe(): resets the subscriber; nothing happens on one that is
\* not subscribed. The branch counts as an unsubscribe action when it finds a
\* stream subscribed.
Unsubscribe(t, s) ==
    /\ pc[t] = PcOf("unsub", s)
    /\ s \in Streams(node)
    /\ sub' = [sub EXCEPT ![s] = FALSE]
    /\ pc' = [pc EXCEPT ![t] = AfterStream("unsub", s)]
    /\ IF s = "depth" /\ \E x \in Streams(node) : sub[x]
       THEN nUnsub' = nUnsub + 1 /\ lastAct' = "unsub"
       ELSE UNCHANGED <<nUnsub, lastAct>>
    /\ UNCHANGED cbVars
    /\ UNCHANGED <<node, count, queue, nChanges, cap, connect_mutex_, nSub,
                   doubleSub, sameSide, scen>>

\* sub_X.subscribe(...): creates the subscription.
Subscribe(t, s) ==
    /\ pc[t] = PcOf("sub", s)
    /\ s \in Streams(node)
    /\ sub' = [sub EXCEPT ![s] = TRUE]
    /\ pc' = [pc EXCEPT ![t] = AfterStream("sub", s)]
    /\ doubleSub' = (doubleSub \/ sub[s] \/ (s = "depth" /\ lastAct = "sub"))
    /\ IF s = "depth"
       THEN nSub' = nSub + 1 /\ lastAct' = "sub"
       ELSE UNCHANGED <<nSub, lastAct>>
    /\ UNCHANGED cbVars
    /\ UNCHANGED <<node, count, queue, nChanges, cap, connect_mutex_, nUnsub,
                   sameSide, scen>>

\* End of the callback: the lock_guard releases connect_mutex_.
Unlock(t) ==
    /\ pc[t] = "unlock"
    /\ connect_mutex_' = IF connect_mutex_ = t THEN 0 ELSE connect_mutex_
    /\ pc' = [pc EXCEPT ![t] = "idle"]
    /\ sameSide' = [sameSide EXCEPT ![t] = FALSE]
    /\ UNCHANGED cbVars
    /\ UNCHANGED <<node, count, queue, nChanges, cap, sub, nSub, nUnsub, lastAct,
                   doubleSub, scen>>

InitGateVars ==
    /\ count = 0
    /\ queue = <<>>
    /\ nChanges = 0
    /\ pc = [t \in Handlers |-> "idle"]
    /\ cap = [t \in Handlers |-> 0]
    /\ connect_mutex_ = 0
    /\ sub = [s \in AllStreams |-> FALSE]
    /\ nSub = 0
    /\ nUnsub = 0
    /\ lastAct = "none"
    /\ doubleSub = FALSE
    /\ sameSide = [t \in Handlers |-> FALSE]
    /\ scen = 0

----------------------------------------------------------------------------
(* Numbers.  A float or double is the pair <<n, d>> of the fraction n / d in  *)
(* lowest terms with d > 0; d = 0 gives the IEEE specials: <<1, 0>> is +inf,   *)
(* <<-1, 0>> is -inf and <<0, 0>> is NaN.  Rounding is not modelled.            *)

RECURSIVE Gcd(_, _)
Gcd(a, b) == IF b = 0 THEN a ELSE Gcd(b, a % b)

Abs(x) == IF x < 0 THEN -x ELSE x
Sign(x) == IF x < 0 THEN -1 ELSE IF x > 0 THEN 1 ELSE 0

Norm(n, d) ==
    IF d = 0 THEN <<Sign(n), 0>>
    ELSE LET g == Gcd(Abs(n), Abs(d))
             sg == Sign(d)
         IN <<(sg * n) \div g, (sg * d) \div g>>

R(i) == <<i, 1>>
RInf == <<1, 0>>
RNaN == <<0, 0>>
RMul(a, b) == Norm(a[1] * b[1], a[2] * b[2])
\* IEEE division: x / 0 is an infinity, 0 / 0 and inf / inf are NaN, x / inf is 0.
RDiv(a, b) ==
    IF a[2] = 0 /\ b[2] # 0 /\ b[1] < 0 THEN <<-a[1], 0>>
    ELSE Norm(a[1] * b[2], a[2] * b[1])
RIsFinite(a) == a[2] # 0

----------------------------------------------------------------------------
(* Messages *)

MaxDim == 2           \* largest image width and height
\* Elements of padding between the end of a row and the next row.
Pads == {0, 1}

Dims == 1..MaxDim
NoMsg == [kind |-> "none"]
CbThreads == {1, 2}

TYPE_16UC1 == "16UC1"
TYPE_32FC1 == "32FC1"
MONO8 == "mono8"
MONO16 == "mono16"
\* Encodings a depth image may arrive with; mono8 stands for the unsupported ones.
DepthEncodings == {TYPE_16UC1, TYPE_32FC1, MONO8}
\* Encodings an intensity image may arrive with; "bogus" is no encoding
\* sensor_msgs::image_encodings knows.
IntensityEncodings == {MONO8, MONO16, TYPE_16UC1, TYPE_32FC1, "rgb8", "bogus"}

\* Bytes per sample of an encoding; sizeof(T) in convert<T>.
SizeOf(enc) == IF enc = MONO8 THEN 1 ELSE IF enc = TYPE_16UC1 THEN 2 ELSE 4

\* Raw depth samples: uint16_t millimetres, float metres.
BasicSamples(enc) ==
    IF enc = TYPE_16UC1 THEN {R(1000), R(65535)}
    ELSE IF enc = TYPE_32FC1 THEN {R(2), RNaN}
    ELSE {R(0)}
AllSamples(enc) ==
    IF enc = TYPE_16UC1 THEN {R(0), R(1000), R(2000), R(3000), R(65535)}
    ELSE IF enc = TYPE_32FC1 THEN {R(0), R(2), <<1, 2>>, RNaN, RInf}
    ELSE {R(0)}
\* What the bytes between the end of a row and the next row hold.
PadSample(enc) == IF enc = TYPE_16UC1 THEN R(4000) ELSE R(4)

\* The buffer of an image of w x h samples px (row-major) whose rows are
\* w + pad elements apart.
Buffer(enc, w, h, pad, px) ==
    [i \in 1..(h * (w + pad)) |->
        LET r == (i - 1) \div (w + pad)
            c == (i - 1) % (w + pad)
        IN IF c < w THEN px[r * w + c + 1] ELSE PadSample(enc)]

DepthImage(enc, w, h, pad, px) ==
    [width |-> w, height |-> h, step |-> (w + pad) * SizeOf(enc),
     encoding |-> enc, data |-> Buffer(enc, w, h, pad, px)]

\* The 2 x 2 unsigned 16-bit image 1000, 0xFFFF, 2000, 3000.
ScenarioImage ==
    DepthImage(TYPE_16UC1, 2, 2, 0, <<R(1000), R(65535), R(2000), R(3000)>>)

\* The depth images the disparity node is run on: every image of up to
\* MaxDim x MaxDim basic samples, every single-sample image, and ScenarioImage.
ImagesOfSize(enc, w, h) ==
    { DepthImage(enc, w, h, pad, px) :
        pad \in Pads, px \in [1..(w * h) -> BasicSamples(enc)] }
DepthImages ==
    UNION { ImagesOfSize(enc, wh[1], wh[2]) : enc \in DepthEncodings, wh \in Dims \X Dims }
    \cup UNION { { DepthImage(enc, 1, 1, 0, <<x>>) : x \in AllSamples(enc) } :
                 enc \in DepthEncodings }
    \cup {ScenarioImage}

\* CameraInfo: the entries of K and P the nodes read, and the declared size.
CalA == [k0 |-> R(100), k2 |-> R(32), k4 |-> R(100), k5 |-> R(24),
         p0 |-> R(100), p2 |-> R(32), p3 |-> R(-50), p5 |-> R(100), p6 |-> R(24),
         width |-> 2, height |-> 2]
CalB == [k0 |-> R(200), k2 |-> R(64), k4 |-> R(200), k5 |-> R(48),
         p0 |-> R(200), p2 |-> R(64), p3 |-> R(-30), p5 |-> R(200), p6 |-> R(48),
         width |-> 1, height |-> 1]
Infos == {CalA, CalB}

\* What the disparity node's synchronizer hands to depthCb.
DisparityTuples == [depth : DepthImages, info : Infos]

\* std_msgs::msg::Header: the frame ids and time stamps images arrive with.
Frames == {"depth_optical_frame", "rgb_optical_frame"}
DepthStamps == {10}
IntensityStamps == {10, 11}
Headers(stamps) == [frame_id : Frames, stamp : stamps]

\* What the point-cloud node's synchronizer hands to imageCb (headers, sizes
\* and encodings; the pixels play no part in the control flow).
ImageHeads(encs, stamps) ==
    [header : Headers(stamps), width : Dims, height : Dims, encoding : encs]
XyziTuples ==
    [depth : ImageHeads(DepthEncodings, DepthStamps),
     intensity : ImageHeads(IntensityEncodings, IntensityStamps),
     info : Infos]

\* A few of the tuples: what the streams carry where several threads run.
FewHeader == [frame_id |-> "depth_optical_frame", stamp |-> 10]
DisparityFew ==
    [depth : {ScenarioImage,
              DepthImage(TYPE_32FC1, 1, 1, 0, <<RNaN>>),
              DepthImage(MONO8, 1, 1, 0, <<R(0)>>)},
     info : Infos]
XyziFew ==
    [depth : [header : {FewHeader}, width : {1}, height : {1, 2},
              encoding : {TYPE_16UC1}],
     intensity : [header : {FewHeader}, width : {1}, height : {2},
                  encoding : {MONO8, "bogus"}],
     info : Infos]
DisparityInputs == IF inputs = "all" THEN DisparityTuples ELSE DisparityFew
XyziInputs == IF inputs = "all" THEN XyziTuples ELSE XyziFew

\* The (min_range, max_range) parameter pairs a node may be started with; the
\* first is the default (0.0, infinity).
RangeConfigs == {<<R(0), RInf>>, <<<<1, 2>>, R(10)>>}
\* The delta_d parameter (default 0.125).
delta_d_ == <<1, 8>>

----------------------------------------------------------------------------
(* DepthTraits<T> (depth_traits.hpp) *)

\* valid(depth): an unsigned sample is valid unless it is the no-return
\* sentinel, the type's maximum; a float sample is valid iff it is finite.
Valid(enc, d) == IF enc = TYPE_16UC1 THEN d # R(65535) ELSE RIsFinite(d)

\* toMeters(depth): unsigned samples are millimetres, float samples metres.
ToMeters(enc, d) == IF enc = TYPE_16UC1 THEN RMul(d, <<1, 1000>>) ELSE d

----------------------------------------------------------------------------
(* DisparityNode::depthCb and convert<T> *)

DepthSupported(enc) == enc = TYPE_16UC1 \/ enc = TYPE_32FC1

\* disp_msg with the two range parameters taken for each other.
NewDispSwapped(tuple) ==
    LET fx == tuple.info.p0
        t == RDiv(RMul(R(-1), tuple.info.p3), fx)
    IN [kind |-> "disparity",
        encoding |-> TYPE_32FC1,
        height |-> tuple.depth.height,
        width |-> tuple.depth.width,
        step |-> tuple.depth.width * 4,
        data |-> [i \in 1..(tuple.depth.height * tuple.depth.width) |-> R(0)],
        t |-> t,
        f |-> fx,
        min_disparity |-> RDiv(RMul(fx, t), min_range_),
        max_disparity |-> RDiv(RMul(fx, t), max_range_),
        delta_d |-> delta_d_]

\* disp_msg as depthCb fills it before the conversion: the grid is zero.
NewDisp(tuple) ==
    LET fx == tuple.info.p0
        t == RDiv(RMul(R(-1), tuple.info.p3), fx)
    IN [kind |-> "disparity",
        encoding |-> TYPE_32FC1,
        height |-> tuple.depth.height,
        width |-> tuple.depth.width,
        step |-> tuple.depth.width * 4,
        data |-> [i \in 1..(tuple.depth.height * tuple.depth.width) |-> R(0)],
        t |-> t,
        f |-> fx,
        min_disparity |-> RDiv(RMul(fx, t), max_range_),
        max_disparity |-> RDiv(RMul(fx, t), min_range_),
        delta_d |-> delta_d_]

\* float constant = disp_msg->f * disp_msg->t / unit_scaling.
ConvertConstantNoScale(d, enc) == RMul(d.f, d.t)
ConvertConstant(d, enc) == RDiv(RMul(d.f, d.t), ToMeters(enc, R(1)))

\* int row_step = depth_msg->step / sizeof(T).
RowStepWidth(img) == img.width
RowStep(img) == img.step \div SizeOf(img.encoding)

NoLoop == [kind |-> "none"]
NoTuple == [kind |-> "none"]

\* The locals of convert<T> before its first iteration.
ConvertInit(tuple, d) ==
    [kind |-> "loop", u |-> 0, v |-> 0,
     depth_row |-> 0,                     \* offset of depth_row in T elements
     disp_data |-> 0,                     \* offset of disp_data in floats
     row_step |-> RowStep(tuple.depth),
     constant |-> ConvertConstant(d, tuple.depth.encoding),
     writes |-> [i \in 1..(tuple.depth.height * tuple.depth.width) |-> 0]]

CanStart(t) ==
    /\ alive
    /\ t <= workers
    /\ cbpc[t] = "idle"

\* depthCb up to the call of convert<T>, or its return on an unsupported encoding.
DepthCbStart(t) ==
    /\ node = "disparity"
    /\ CanStart(t)
    /\ \E tuple \in DisparityInputs :
        /\ tup' = [tup EXCEPT ![t] = tuple]
        /\ LET d == NewDisp(tuple) IN
           IF DepthSupported(tuple.depth.encoding)
           THEN /\ disp' = [disp EXCEPT ![t] = d]
                /\ loop' = [loop EXCEPT ![t] = ConvertInit(tuple, d)]
                /\ cbpc' = [cbpc EXCEPT ![t] = "convert"]
           ELSE /\ disp' = [disp EXCEPT ![t] = NoMsg]
                /\ loop' = [loop EXCEPT ![t] = NoLoop]
                /\ cbpc' = [cbpc EXCEPT ![t] = "done"]
    /\ out' = [out EXCEPT ![t] = NoMsg]
    /\ exc' = [exc EXCEPT ![t] = "none"]
    /\ UNCHANGED <<workers, inputs, alive, min_range_, max_range_, model_, prevBad, ienc, cloud>>
    /\ UNCHANGED <<node, gateVars>>

\* One iteration of the inner loop of convert<T>, with the end of the row.
ConvertPixel(t) ==
    /\ cbpc[t] = "convert"
    /\ loop[t].v < tup[t].depth.height
    /\ LET l == loop[t]
           img == tup[t].depth
           depth == img.data[l.depth_row + l.u + 1]
           cell == l.disp_data + 1
           ok == Valid(img.encoding, depth)
           rowEnd == l.u + 1 = img.width
       IN /\ disp' = [disp EXCEPT ![t].data[cell] =
                        IF ok THEN RDiv(l.constant, depth) ELSE @]
          /\ loop' = [loop EXCEPT
                        ![t].writes[cell] = IF ok THEN @ + 1 ELSE @,
                        ![t].disp_data = @ + 1,
                        ![t].u = IF rowEnd THEN 0 ELSE @ + 1,
                        ![t].v = IF rowEnd THEN @ + 1 ELSE @,
                        ![t].depth_row = IF rowEnd THEN @ + l.row_step ELSE @]
    /\ UNCHANGED <<workers, inputs, alive, min_range_, max_range_, model_, cbpc, tup, exc,
                   out, prevBad, ienc, cloud>>
    /\ UNCHANGED <<node, gateVars>>

\* convert<T> has returned: pub_disparity_->publish(*disp_msg).
DepthCbPublish(t) ==
    /\ cbpc[t] = "convert"
    /\ loop[t].v = tup[t].depth.height
    /\ out' = [out EXCEPT ![t] = disp[t]]
    /\ disp' = [disp EXCEPT ![t] = NoMsg]
    /\ cbpc' = [cbpc EXCEPT ![t] = "done"]
    /\ UNCHANGED <<workers, inputs, alive, min_range_, max_range_, model_, tup, exc,
                   prevBad, ienc, cloud, loop>>
    /\ UNCHANGED <<node, gateVars>>

----------------------------------------------------------------------------
(* PointCloudXyziNode::imageCb *)

NoModel == [kind |-> "none"]

\* model_.fromCameraInfo(msg): the pinhole model reads fx, fy, cx, cy, Tx from P.
FromCameraInfo(msg) ==
    [kind |-> "model", fx |-> msg.p0, fy |-> msg.p5, cx |-> msg.p2, cy |-> msg.p6,
     Tx |-> msg.p3, width |-> msg.width, height |-> msg.height]

\* float ratio = depth_msg->width / intensity_msg->width.
Ratio(tuple) == RDiv(R(tuple.depth.width), R(tuple.intensity.width))

\* info_msg_tmp: the calibration with the depth image's size and K[0], K[2],
\* K[4], K[5], P[0], P[2], P[5], P[6] multiplied by ratio.
Rescaled(tuple) ==
    LET r == Ratio(tuple) IN
    [tuple.info EXCEPT
        !.width = tuple.depth.width, !.height = tuple.depth.height,
        !.k0 = RMul(@, r), !.k2 = RMul(@, r), !.k4 = RMul(@, r), !.k5 = RMul(@, r),
        !.p0 = RMul(@, r), !.p2 = RMul(@, r), !.p5 = RMul(@, r), !.p6 = RMul(@, r)]

SizesDiffer(tuple) ==
    \/ tuple.depth.width # tuple.intensity.width
    \/ tuple.depth.height # tuple.intensity.height

\* Encodings cv_bridge knows (getCvType throws cv_bridge::Exception on others).
KnownEncodings == {MONO8, MONO16, TYPE_16UC1, TYPE_32FC1, "rgb8"}
\* cv_bridge::toCvShare(msg, msg->encoding) throws.
ToCvShareThrows(enc) == enc \notin KnownEncodings
\* cv_bridge::toCvCopy(msg, MONO8) throws: the source is unknown, or it is no
\* colour format (16UC1, 32FC1) while mono8 is one.
ToCvCopyMono8Throws(enc) == enc \notin {MONO8, MONO16, "rgb8"}

\* depth_msg->height / ratio, the end of rowRange(0, .), truncated to int.
ResizeRows(tuple) ==
    (tuple.depth.height * tuple.intensity.width) \div tuple.depth.width
\* rowRange asserts end <= rows and cv::resize asserts a non-empty source:
\* both throw cv::Exception.
ResizeThrows(tuple) ==
    \/ ResizeRows(tuple) > tuple.intensity.height
    \/ ResizeRows(tuple) = 0

\* The condition of line 179:
\* intensity_msg->encoding != enc::MONO8 || intensity_msg->encoding != enc::MONO16.
NotMono8OrNotMono16(enc) == enc # MONO8 \/ enc # MONO16

\* The resize branch (lines 152-169): "caught" (return after the catch),
\* "escaped" (an exception no handler of imageCb catches), or the encoding of
\* the resized intensity_msg.
ResizeBranch(tuple) ==
    LET e == tuple.intensity.encoding IN
    IF ToCvShareThrows(e) THEN "caught"
    ELSE IF ResizeThrows(tuple) THEN "escaped"
    ELSE IF e = MONO8 \/ e = MONO16 THEN e
    ELSE IF ToCvCopyMono8Throws(e) THEN "escaped"
    ELSE MONO8

\* Lines 178-188 on an intensity_msg of encoding e: "caught" or the encoding
\* of intensity_msg afterwards.
Normalize(e) ==
    IF NotMono8OrNotMono16(e)
    THEN (IF ToCvCopyMono8Throws(e) THEN "caught" ELSE MONO8)
    ELSE e

\* depth_msg->header.frame_id != intensity_msg_in->header.frame_id: imageCb
\* logs a throttled warning and goes on.
FrameIdMismatch(tuple) ==
    tuple.depth.header.frame_id # tuple.intensity.header.frame_id

\* An imageCb that takes connect_mutex_ at its entry and keeps it while it
\* projects.
ImageCbStartLocked(t) ==
    /\ node = "xyzi"
    /\ CanStart(t)
    /\ MutexFree
    /\ connect_mutex_' = NumHandlers + t
    /\ \E tuple \in XyziInputs :
        /\ tup' = [tup EXCEPT ![t] = tuple]
        /\ ienc' = [ienc EXCEPT ![t] = tuple.intensity.encoding]
        /\ model_' = FromCameraInfo(tuple.info)
    /\ out' = [out EXCEPT ![t] = NoMsg]
    /\ exc' = [exc EXCEPT ![t] = "none"]
    /\ cloud' = [cloud EXCEPT ![t] = NoMsg]
    /\ cbpc' = [cbpc EXCEPT ![t] = "resize"]
    /\ UNCHANGED <<workers, inputs, alive, min_range_, max_range_, prevBad, disp, loop>>
    /\ UNCHANGED <<node, count, queue, nChanges, pc, cap, sub, nSub, nUnsub,
                   lastAct, doubleSub, sameSide, scen>>

\* imageCb from its entry to model_.fromCameraInfo(info_msg); a frame id
\* mismatch changes nothing but the log.
ImageCbStart(t) ==
    /\ node = "xyzi"
    /\ CanStart(t)
    /\ \E tuple \in XyziInputs :
        /\ tup' = [tup EXCEPT ![t] = tuple]
        /\ ienc' = [ienc EXCEPT ![t] = tuple.intensity.encoding]
        /\ model_' = FromCameraInfo(tuple.info)
    /\ out' = [out EXCEPT ![t] = NoMsg]
    /\ exc' = [exc EXCEPT ![t] = "none"]
    /\ cloud' = [cloud EXCEPT ![t] = NoMsg]
    /\ cbpc' = [cbpc EXCEPT ![t] = "resize"]
    /\ UNCHANGED <<workers, inputs, alive, min_range_, max_range_, prevBad, disp, loop>>
    /\ UNCHANGED <<node, gateVars>>

\* Lines 135-188: the resize branch and the encoding normalisation.
ImageCbNormalize(t) ==
    /\ cbpc[t] = "resize"
    /\ LET tuple == tup[t]
           resized == IF SizesDiffer(tuple) THEN ResizeBranch(tuple)
                      ELSE tuple.intensity.encoding
           final == IF resized \in {"caught", "escaped"} THEN resized
                    ELSE Normalize(resized)
       IN /\ model_' = IF SizesDiffer(tuple) THEN FromCameraInfo(Rescaled(tuple))
                       ELSE model_
          /\ IF final = "escaped"
             THEN /\ exc' = [exc EXCEPT ![t] = "escaped"]
                  /\ cbpc' = [cbpc EXCEPT ![t] = "crashed"]
                  /\ alive' = FALSE
                  /\ UNCHANGED ienc
             ELSE IF final = "caught"
             THEN /\ exc' = [exc EXCEPT ![t] = "caught"]
                  /\ cbpc' = [cbpc EXCEPT ![t] = "done"]
                  /\ UNCHANGED <<alive, ienc>>
             ELSE /\ ienc' = [ienc EXCEPT ![t] = final]
                  /\ cbpc' = [cbpc EXCEPT ![t] = "cloud"]
                  /\ UNCHANGED <<alive, exc>>
    /\ UNCHANGED <<workers, inputs, min_range_, max_range_, tup, out, prevBad, cloud, disp, loop>>
    /\ UNCHANGED <<node, gateVars>>

\* The header of a cloud that takes it from the intensity image.
CloudHeaderIntensity(tuple) == tuple.intensity.header
\* cloud_msg->header = depth_msg->header.
CloudHeader(tuple) == tuple.depth.header

\* Lines 190-215: cloud_msg and convertDepth<T>(depth_msg, cloud_msg, model_, .).
ImageCbConvertDepth(t) ==
    /\ cbpc[t] = "cloud"
    /\ IF DepthSupported(tup[t].depth.encoding)
       THEN /\ cloud' = [cloud EXCEPT ![t] =
                    [kind |-> "cloud",
                     header |-> CloudHeader(tup[t]),
                     height |-> tup[t].depth.height,
                     width |-> tup[t].depth.width,
                     is_dense |-> FALSE,
                     is_bigendian |-> FALSE,
                     depthT |-> tup[t].depth.encoding,
                     model |-> model_,
                     intensityT |-> "none"]]
            /\ cbpc' = [cbpc EXCEPT ![t] = "intensity"]
       ELSE /\ cbpc' = [cbpc EXCEPT ![t] = "done"]
            /\ UNCHANGED cloud
    /\ UNCHANGED <<workers, inputs, alive, min_range_, max_range_, model_, tup, exc, out,
                   prevBad, ienc, disp, loop>>
    /\ UNCHANGED <<node, gateVars>>

\* The T of the convertIntensity<T> the dispatch of lines 218-231 calls.
IntensityT(e) ==
    IF e = MONO8 THEN "uint8_t"
    ELSE IF e = MONO16 \/ e = TYPE_16UC1 THEN "uint16_t"
    ELSE IF e = TYPE_32FC1 THEN "float"
    ELSE "unsupported"

\* Lines 217-233: convertIntensity<T> and pub_point_cloud_->publish(*cloud_msg).
ImageCbPublish(t) ==
    /\ cbpc[t] = "intensity"
    /\ IF IntensityT(ienc[t]) = "unsupported"
       THEN UNCHANGED out
       ELSE out' = [out EXCEPT ![t] = [cloud[t] EXCEPT !.intensityT = IntensityT(ienc[t])]]
    /\ cbpc' = [cbpc EXCEPT ![t] = "done"]
    /\ UNCHANGED <<workers, inputs, alive, min_range_, max_range_, model_, tup, exc,
                   prevBad, ienc, cloud, disp, loop>>
    /\ UNCHANGED <<node, gateVars>>

\* The callback has returned to the executor; its arguments and locals are gone.
CbReturn(t) ==
    /\ cbpc[t] = "done"
    /\ prevBad' = ~DepthSupported(tup[t].depth.encoding)
    /\ cbpc' = [cbpc EXCEPT ![t] = "idle"]
    /\ tup' = [tup EXCEPT ![t] = NoTuple]
    /\ exc' = [exc EXCEPT ![t] = "none"]
    /\ out' = [out EXCEPT ![t] = NoMsg]
    /\ ienc' = [ienc EXCEPT ![t] = "none"]
    /\ cloud' = [cloud EXCEPT ![t] = NoMsg]
    /\ disp' = [disp EXCEPT ![t] = NoMsg]
    /\ loop' = [loop EXCEPT ![t] = NoLoop]
    /\ UNCHANGED <<workers, inputs, alive, min_range_, max_range_, model_>>
    /\ UNCHANGED <<node, gateVars>>

----------------------------------------------------------------------------
(* Specifications *)

InitCbState ==
    /\ alive = TRUE
    /\ model_ = NoModel
    /\ cbpc = [t \in CbThreads |-> "idle"]
    /\ tup = [t \in CbThreads |-> NoTuple]
    /\ exc = [t \in CbThreads |-> "none"]
    /\ out = [t \in CbThreads |-> NoMsg]
    /\ prevBad = FALSE
    /\ ienc = [t \in CbThreads |-> "none"]
    /\ cloud = [t \in CbThreads |-> NoMsg]
    /\ disp = [t \in CbThreads |-> NoMsg]
    /\ loop = [t \in CbThreads |-> NoLoop]

\* One callback at a time, on every input.
InitCbVars ==
    /\ workers = 1
    /\ inputs = "all"
    /\ InitCbState

InitCb ==
    /\ node \in Nodes
    /\ InitGateVars
    /\ InitCbVars
    /\ \E rc \in RangeConfigs : min_range_ = rc[1] /\ max_range_ = rc[2]

NextCb ==
    \/ \E t \in CbThreads : DepthCbStart(t)
    \/ \E t \in CbThreads : ConvertPixel(t)
    \/ \E t \in CbThreads : DepthCbPublish(t)
    \/ \E t \in CbThreads : ImageCbStart(t)
    \/ \E t \in CbThreads : ImageCbNormalize(t)
    \/ \E t \in CbThreads : ImageCbConvertDepth(t)
    \/ \E t \in CbThreads : ImageCbPublish(t)
    \/ \E t \in CbThreads : CbReturn(t)

SpecCb == InitCb /\ [][NextCb]_vars

\* The host runs the callbacks of a node on two executor threads.
InitCbMT ==
    /\ node \in Nodes
    /\ InitGateVars
    /\ workers = 2
    /\ inputs = "few"
    /\ InitCbState
    /\ min_range_ = R(0)
    /\ max_range_ = RInf

SpecCbMT == InitCbMT /\ [][NextCb]_vars

InitGate ==
    /\ node \in Nodes
    /\ InitGateVars
    /\ InitCbVars
    /\ min_range_ = R(0)
    /\ max_range_ = RInf

NextGate ==
    \/ \E c \in 0..MaxCount : Change(c)
    \/ \E t \in Handlers : Deliver(t)
    \/ \E t \in Handlers : Enter(t)
    \/ \E t \in Handlers, s \in AllStreams : Unsubscribe(t, s)
    \/ \E t \in Handlers, s \in AllStreams : Subscribe(t, s)
    \/ \E t \in Handlers : Unlock(t)

SpecGate == InitGate /\ [][NextGate]_vars

\* The whole node: matched events are handled on the handler threads while
\* one more executor thread runs the synchronized-tuple callback. Tuples may
\* still arrive after an unsubscribe (messages already taken by the executor).
\* The node starts at rest after one earlier cycle of consumers joining and
\* leaving (one subscribe, one unsubscribe), with two changes still to come.
InitNode ==
    /\ node \in Nodes
    /\ count = 0
    /\ queue = <<>>
    /\ nChanges = MaxChanges - 2
    /\ pc = [t \in Handlers |-> "idle"]
    /\ cap = [t \in Handlers |-> 0]
    /\ connect_mutex_ = 0
    /\ sub = [s \in AllStreams |-> FALSE]
    /\ nSub = 1
    /\ nUnsub = 1
    /\ lastAct = "unsub"
    /\ doubleSub = FALSE
    /\ sameSide = [t \in Handlers |-> FALSE]
    /\ scen = -1
    /\ workers = 1
    /\ inputs = "few"
    /\ InitCbState
    /\ min_range_ = R(0)
    /\ max_range_ = RInf

NextNode == NextGate \/ NextCb

SpecNode == InitNode /\ [][NextNode]_vars

----------------------------------------------------------------------------
(* Properties of the demand gate *)

\* C1: under any interleaving of the handler threads, no subscribe is performed
\* on a stream that is already subscribed, and between any two subscribe
\* actions there is an unsubscribe action.
C1_NoDoubleSubscribe == ~doubleSub

\* A second subscribe action has happened while another handler was waiting for
\* connect_mutex_.
C1_Witness ==
    /\ nSub >= 2
    /\ lastAct = "sub"
    /\ \E t \in Handlers : pc[t] = "lock" /\ connect_mutex_ # 0

\* The counts 1, 1, 0, 2 were each raised after the previous notification was
\* handled, starting from the fresh node (count 0), and all are handled.
ScenarioDone == scen = Len(Scenario) /\ Quiescent

\* C2 as stated: the sequence 0 -> 1 -> 1 -> 0 -> 2 gives exactly two subscribe
\* actions and exactly two unsubscribe actions.
C2_TwoSubsTwoUnsubs == ScenarioDone => (nSub = 2 /\ nUnsub = 2)

\* C2 as amended: the sequence 0 -> 1 -> 1 -> 0 -> 2 gives exactly two subscribe
\* actions and exactly one unsubscribe action (the one falling edge 1 -> 0), and
\* the streams end subscribed.
C2_TwoSubsOneUnsub ==
    ScenarioDone =>
        /\ nSub = 2
        /\ nUnsub = 1
        /\ \A s \in Streams(node) : sub[s]

C2_Witness == ScenarioDone

\* The streams of the node are subscribed exactly when consumers are matched.
SubscribedIffDemand == \A s \in Streams(node) : sub[s] <=> count > 0

\* C3: in the point-cloud node, once all handlers have finished, the three
\* streams are subscribed if and only if the consumer count is greater than 0.
C3_XyziSettles == (node = "xyzi" /\ Quiescent) => SubscribedIffDemand

\* C4: in the disparity node, once all handlers have finished, the depth and
\* calibration streams are subscribed if and only if the consumer count is
\* greater than 0.
C4_DisparitySettles == (node = "disparity" /\ Quiescent) => SubscribedIffDemand

\* All changes were raised, handled, and the streams were unsubscribed and
\* subscribed again on the way.
C4_Witness ==
    /\ node = "disparity"
    /\ Quiescent
    /\ nChanges = MaxChanges
    /\ nUnsub >= 1
    /\ count > 0
    /\ sub["depth"]

\* C5: a handler whose count is on the side of zero the streams are already on
\* (count > 0 and subscribed, count = 0 and unsubscribed) performs no subscribe
\* and no unsubscribe action and leaves every stream's state as it is.
C5_SameSideNoAction ==
    [][\A t \in Handlers :
          (connect_mutex_ = t /\ sameSide[t]) =>
              /\ sub' = sub
              /\ nSub' = nSub
              /\ nUnsub' = nUnsub
              /\ lastAct' = lastAct]_vars

\* A handler for count 0 ran to its end on streams that an earlier handler had
\* already unsubscribed.
C5_Witness ==
    \E t \in Handlers :
        /\ connect_mutex_ = t
        /\ sameSide[t]
        /\ pc[t] = "unlock"
        /\ nUnsub >= 1
        /\ ~sub["depth"]

----------------------------------------------------------------------------
(* Properties of the callbacks *)

\* The callback of thread t has run to its end and has not yet returned.
Done(t) == cbpc[t] = "done"
Published(t) == Done(t) /\ out[t] # NoMsg

\* The depth sample at row v, column u of an image, addressed by its row
\* stride in bytes.
SampleAt(img, u, v) ==
    img.data[(v * img.step + u * SizeOf(img.encoding)) \div SizeOf(img.encoding) + 1]

\* f * T of a disparity message.
BaselineTerm(d) == RMul(d.f, d.t)

\* Cell (u, v) of the published grid is f*T / to_meters(d) for a valid sample
\* d and 0.0 for an invalid one.
CellRight(t, u, v) ==
    LET img == tup[t].depth
        d == SampleAt(img, u, v)
        cell == out[t].data[v * img.width + u + 1]
    IN IF Valid(img.encoding, d)
       THEN cell = RDiv(BaselineTerm(out[t]), ToMeters(img.encoding, d))
       ELSE cell = R(0)

GridRight(t) ==
    /\ out[t].kind = "disparity"
    /\ out[t].width = tup[t].depth.width
    /\ out[t].height = tup[t].depth.height
    /\ Len(out[t].data) = tup[t].depth.width * tup[t].depth.height
    /\ \A u \in 0..(tup[t].depth.width - 1), v \in 0..(tup[t].depth.height - 1) :
          CellRight(t, u, v)

\* The camera model imageCb is to project a tuple with: the calibration,
\* rescaled when the sizes of the two images differ.
ExpectedModel(tuple) ==
    FromCameraInfo(IF SizesDiffer(tuple) THEN Rescaled(tuple) ELSE tuple.info)

CloudRight(t) ==
    /\ out[t].kind = "cloud"
    /\ out[t].width = tup[t].depth.width
    /\ out[t].height = tup[t].depth.height
    /\ out[t].model = ExpectedModel(tup[t])

\* C6: a tuple whose depth encoding is neither 16UC1 nor 32FC1 publishes
\* nothing and leaves the pipeline live: the host keeps running, and the tuple
\* with a supported depth encoding that comes next is published as it would be
\* had the bad tuple not arrived.
C6_BadDepthDropped ==
    \A t \in CbThreads :
        /\ (tup[t] # NoTuple /\ ~DepthSupported(tup[t].depth.encoding)) =>
              (out[t] = NoMsg /\ alive)
        /\ (Done(t) /\ prevBad /\ DepthSupported(tup[t].depth.encoding)) =>
              /\ exc[t] = "none" => out[t] # NoMsg
              /\ out[t] # NoMsg =>
                    IF node = "disparity" THEN GridRight(t) ELSE CloudRight(t)

\* C7: a throw of a resample or conversion primitive in imageCb is caught in
\* the callback and the frame dropped: no exception leaves imageCb, on the
\* resize path and on the matching-resolution path.
C7_NoExceptionEscapes ==
    \A t \in CbThreads :
        /\ exc[t] # "escaped"
        /\ exc[t] = "caught" => (Done(t) /\ out[t] = NoMsg)

IntensityKinds == {MONO8, MONO16, TYPE_16UC1, TYPE_32FC1}

\* C8: an intensity image of a supported kind whose size equals the depth
\* image's reaches the convertIntensity dispatch in its original encoding and
\* is read with the conversion of that encoding; it is not coerced to mono8.
C8_IntensityOwnKind ==
    \A t \in CbThreads :
        (/\ tup[t] # NoTuple
         /\ node = "xyzi"
         /\ ~SizesDiffer(tup[t])
         /\ tup[t].intensity.encoding \in IntensityKinds) =>
            /\ cbpc[t] = "intensity" => ienc[t] = tup[t].intensity.encoding
            /\ Published(t) =>
                  out[t].intensityT = IntensityT(tup[t].intensity.encoding)
            /\ exc[t] = "none"

\* C9: for a depth image of a supported kind, every cell (u, v) of the
\* published disparity grid is f*T / to_meters(d) for a valid sample d at row
\* v, column u of the input (by its row stride) and 0.0 for an invalid one,
\* and no cell is written more than once.
C9_DisparityPerPixel ==
    \A t \in CbThreads :
        /\ loop[t] # NoLoop =>
              \A i \in DOMAIN loop[t].writes : loop[t].writes[i] <= 1
        /\ (node = "disparity" /\ Published(t)) =>
              /\ GridRight(t)
              /\ \A u \in 0..(tup[t].depth.width - 1),
                    v \in 0..(tup[t].depth.height - 1) :
                    loop[t].writes[v * tup[t].depth.width + u + 1] =
                        IF Valid(tup[t].depth.encoding, SampleAt(tup[t].depth, u, v))
                        THEN 1 ELSE 0

\* A padded 2 x 2 image with a valid and an invalid sample has been published.
C9_Witness ==
    \E t \in CbThreads :
        /\ node = "disparity"
        /\ Published(t)
        /\ tup[t].depth.width = 2
        /\ tup[t].depth.height = 2
        /\ tup[t].depth.step > 2 * SizeOf(tup[t].depth.encoding)
        /\ \E i, j \in 1..4 : loop[t].writes[i] = 1 /\ loop[t].writes[j] = 0

IsScenario(t) ==
    /\ node = "disparity"
    /\ Done(t)
    /\ tup[t].depth = ScenarioImage
    /\ tup[t].info = CalA

\* C10: the 2 x 2 unsigned 16-bit image 1000, 0xFFFF, 2000, 3000 with fx = 100
\* and f*T = 50 gives the disparities 50, 0, 25, 50/3: the 0xFFFF cell is
\* never written and the others are 50 over the depth in metres.
C10_ScenarioGrid ==
    \A t \in CbThreads :
        IsScenario(t) =>
            /\ out[t] # NoMsg
            /\ out[t].f = R(100)
            /\ BaselineTerm(out[t]) = R(50)
            /\ out[t].data = <<R(50), R(0), R(25), <<50, 3>>>>
            /\ loop[t].writes = <<1, 0, 1, 1>>

C10_Witness == \E t \in CbThreads : IsScenario(t) /\ Published(t)

----------------------------------------------------------------------------
(* Properties of the published messages *)

\* C11: every published disparity frame has f = P[0], T = -P[3] / f,
\* min_disparity = f*T / max_range and max_disparity = f*T / min_range, with
\* the two ranges the node was started with: the fields are a function of the
\* calibration and the parameters alone, not of the depth pixels or of the
\* frames before.
C11_DisparityRange ==
    \A t \in CbThreads :
        (node = "disparity" /\ Published(t)) =>
            LET info == tup[t].info
                f == info.p0
                T == RDiv(RMul(R(-1), info.p3), f)
            IN /\ out[t].f = f
               /\ out[t].t = T
               /\ out[t].min_disparity = RDiv(RMul(f, T), max_range_)
               /\ out[t].max_disparity = RDiv(RMul(f, T), min_range_)
               /\ <<min_range_, max_range_>> \in RangeConfigs

\* A frame was published by a node started with ranges other than the
\* defaults, after a frame that was dropped.
C11_Witness ==
    \E t \in CbThreads :
        /\ node = "disparity"
        /\ Published(t)
        /\ prevBad
        /\ min_range_ = <<1, 2>>
        /\ max_range_ = R(10)
        /\ tup[t].info = CalB
        /\ out[t].min_disparity = R(3)
        /\ out[t].max_disparity = R(60)

\* baseline_term of a camera model: -P[3] / fx.
BaselineOf(model) == RDiv(RMul(R(-1), model.Tx), model.fx)

\* The camera model convertDepth is called with has been fixed for thread t.
Projecting(t) == node = "xyzi" /\ cloud[t] # NoMsg

\* C12: when the depth image's width differs from the width the calibration
\* was declared for, the camera model used for the projection has fx, fy, cx,
\* cy and baseline_term each equal to the calibration's value times
\* depth_width / calibration_width (each half of it for a calibration of
\* twice the depth image's width).
C12_RescaleAllFive ==
    \A t \in CbThreads :
        (Projecting(t) /\ tup[t].depth.width # tup[t].info.width) =>
            LET declared == FromCameraInfo(tup[t].info)
                r == RDiv(R(tup[t].depth.width), R(tup[t].info.width))
                used == cloud[t].model
            IN /\ used.fx = RMul(declared.fx, r)
               /\ used.fy = RMul(declared.fy, r)
               /\ used.cx = RMul(declared.cx, r)
               /\ used.cy = RMul(declared.cy, r)
               /\ BaselineOf(used) = RMul(BaselineOf(declared), r)

\* The four terms imageCb does scale, on the test imageCb does make: when the
\* two images differ in size, fx, fy, cx and cy are the calibration's values
\* times depth_width / intensity_width, and P[3] is the calibration's.
RescaleFourByIntensity ==
    \A t \in CbThreads :
        (Projecting(t) /\ SizesDiffer(tup[t])) =>
            LET declared == FromCameraInfo(tup[t].info)
                r == Ratio(tup[t])
                used == cloud[t].model
            IN /\ used.fx = RMul(declared.fx, r)
               /\ used.fy = RMul(declared.fy, r)
               /\ used.cx = RMul(declared.cx, r)
               /\ used.cy = RMul(declared.cy, r)
               /\ used.Tx = declared.Tx

\* C13: every published cloud has the depth image's width and height,
\* is_dense = false, is_bigendian = false and the depth message's header; a tuple
\* is dropped only for a caught conversion failure or an unsupported encoding,
\* never for a frame id mismatch between the two image headers, and the
\* mismatch changes none of these fields.
C13_CloudHeaderFields ==
    \A t \in CbThreads :
        /\ (node = "xyzi" /\ Published(t)) =>
              /\ out[t].width = tup[t].depth.width
              /\ out[t].height = tup[t].depth.height
              /\ out[t].is_dense = FALSE
              /\ out[t].is_bigendian = FALSE
              /\ out[t].header = tup[t].depth.header
        /\ (node = "xyzi" /\ Done(t) /\ out[t] = NoMsg) =>
              \/ exc[t] = "caught"
              \/ ~DepthSupported(tup[t].depth.encoding)
              \/ IntensityT(ienc[t]) = "unsupported"

\* A cloud was published for a tuple whose two images differ in frame id, time
\* stamp and size.
C13_Witness ==
    \E t \in CbThreads :
        /\ node = "xyzi"
        /\ Published(t)
        /\ FrameIdMismatch(tup[t])
        /\ tup[t].depth.header.stamp # tup[t].intensity.header.stamp
        /\ SizesDiffer(tup[t])
        /\ out[t].header.frame_id = "depth_optical_frame"

----------------------------------------------------------------------------
(* Properties of concurrent callbacks *)

\* C17: with two imageCb running at once on different tuples, each published
\* cloud was projected with the camera model of its own tuple's calibration
\* and depth resolution: convertDepth never reads model_ as the other callback
\* wrote it.
C17_OwnCameraModel ==
    \A t \in CbThreads :
        (node = "xyzi" /\ Published(t)) => out[t].model = ExpectedModel(tup[t])

\* Both callbacks have published, each for a calibration of its own.
TwoCloudsPublished ==
    /\ node = "xyzi"
    /\ \A t \in CbThreads : Published(t)
    /\ tup[1].info # tup[2].info

\* The positions of matched_callback between taking and releasing
\* connect_mutex_: the test of the count and the subscribe / unsubscribe calls.
DecisionPcs ==
    {"unsub_depth", "unsub_intensity", "unsub_info",
     "sub_depth", "sub_intensity", "sub_info", "unlock"}

\* Thread t is inside depthCb or imageCb.
InCallback(t) == cbpc[t] \in {"convert", "resize", "cloud", "intensity", "done"}

\* The step depthCb or imageCb of thread t takes next.
CallbackStep(t) ==
    \/ ConvertPixel(t)
    \/ DepthCbPublish(t)
    \/ ImageCbNormalize(t)
    \/ ImageCbConvertDepth(t)
    \/ ImageCbPublish(t)
    \/ CbReturn(t)

\* C18: connect_mutex_ is held only by a handler thread that is between the
\* lock and the end of its subscribe / unsubscribe decision, never by a thread
\* inside depthCb or imageCb; a handler waiting for the mutex waits for another
\* handler's decision only, and a callback that has started can always take
\* its next step, whoever holds the mutex.
C18_MutexOnlyInDecision ==
    /\ connect_mutex_ # 0 =>
          /\ connect_mutex_ \in Handlers
          /\ pc[connect_mutex_] \in DecisionPcs
    /\ \A h \in Handlers :
          (pc[h] = "lock" /\ ~ENABLED Enter(h)) =>
              \E g \in Handlers \ {h} :
                  connect_mutex_ = g /\ pc[g] \in DecisionPcs
    /\ \A t \in CbThreads : InCallback(t) => ENABLED CallbackStep(t)

\* A handler holds connect_mutex_ in the middle of subscribing, a second
\* handler waits for it, and a callback is in the middle of its projection.
C18_Witness ==
    /\ \E h, g \in Handlers :
          /\ connect_mutex_ = g
          /\ pc[g] \in {"sub_intensity", "sub_info"}
          /\ pc[h] = "lock"
    /\ \E t \in CbThreads : cbpc[t] \in {"convert", "cloud", "intensity"}

----------------------------------------------------------------------------
(* Properties of the subscription state *)

\* C19: in every state where no handler holds connect_mutex_, the upstream
\* streams of the node are all subscribed or all unsubscribed, so the depth
\* subscriber tested by the handler stands for all of them.
C19_AllOrNone ==
    connect_mutex_ = 0 =>
        \A s \in Streams(node) : sub[s] = sub["depth"]

\* The mutex is free after the three streams of the point-cloud node were
\* subscribed, unsubscribed and subscribed again.
C19_Witness ==
    /\ node = "xyzi"
    /\ connect_mutex_ = 0
    /\ nSub >= 2
    /\ nUnsub >= 1
    /\ \A s \in Streams(node) : sub[s]

----------------------------------------------------------------------------
(* Properties of the resize branch *)

\* imageCb has reached the rowRange of line 163 for the tuple of thread t.
ReachedRowRange(t) ==
    /\ node = "xyzi"
    /\ tup[t] # NoTuple
    /\ cbpc[t] # "resize"
    /\ SizesDiffer(tup[t])
    /\ ~ToCvShareThrows(tup[t].intensity.encoding)

\* C20: for every pair of differing depth and intensity sizes, the rows
\* 0 .. depth_height / (depth_width / intensity_width) selected from the
\* intensity image lie inside it: there is at least one row and at most
\* intensity_height rows, also when the aspect ratios of the images differ.
C20_RowRangeInside ==
    \A t \in CbThreads :
        ReachedRowRange(t) =>
            /\ ResizeRows(tup[t]) >= 1
            /\ ResizeRows(tup[t]) <= tup[t].intensity.height

\* The row range is inside the intensity image when the two images have the
\* same aspect ratio.
RowRangeInsideSameAspect ==
    \A t \in CbThreads :
        (/\ ReachedRowRange(t)
         /\ tup[t].depth.width * tup[t].intensity.height =
                tup[t].depth.height * tup[t].intensity.width) =>
            ResizeRows(tup[t]) = tup[t].intensity.height

=============================================================================
